---- MODULE Spec2Model ----
(***************************************************************************)
(* Quiz session of the music-trivia game: the Phaser scene, the React UI   *)
(* state it drives through game events, and the LLM requests in flight.    *)
(*                                                                         *)
(* Three drafts of the game are modelled, selected by `variant`:           *)
(*   "app"  : src/app.jsx (scene + React App in one file, cloud LLM call   *)
(*            through callGeminiAPI);                                      *)
(*   "main" : src/main.js (second draft, lines 135-348) with the LLM       *)
(*            service of src/unnamed/part_001 and the React App of         *)
(*            src/app_previous25.jsx;                                      *)
(*   "part_002" : src/unnamed/part_002 (scene + React App, local model    *)
(*            through runLLM_API_Call, topics drawn at random).            *)
(* The model starts with the App mounted and its event listeners           *)
(* registered on the game's event emitter.  An LLM reply is modelled by    *)
(* what the code reads of it: whether the call failed, whether the text     *)
(* parses, and the fields of the parsed value.  A missing or empty string  *)
(* field is "" (both are falsy in JavaScript).                             *)
(***************************************************************************)
EXTENDS Integers, Sequences, FiniteSets, Bags, TLC

VARIABLES variant, ui, scene, boot, inflight, timers, lastEmit, settled, clicks, won,
          parse, topicsFile, api, store, quiz

\* The state of the game drafts, and the state of the functions that are
\* modelled on their own.
gameVars == <<variant, ui, scene, boot, inflight, timers, lastEmit, settled, clicks, won>>
parts == <<parse, topicsFile, api, store, quiz>>

vars == <<gameVars, parts>>

(* ---------------------------- bounds ---------------------------------- *)

\* Button clicks the player makes in one behaviour.  Every request and every
\* delayed call descends from a click or from start-up, so this bounds both.
MaxClicks == 3
\* Invocations of the onAuthStateChanged callback with a signed-in user.
MaxAuthEvents == 2

(* ----------------------- program constants ---------------------------- *)

MAX_RETRIES == 5
CorrectPoints == 100
IncorrectPoints == 50
WinScore == 1000
MediumScore == 200
DifficultScore == 500
RequiredOptions == 4

Null == "null"
Undefined == "undefined"

(* --------------------------- LLM replies ------------------------------ *)

\* Topic replies: the call fails, the text does not parse, or it parses to a
\* value: for src/app.jsx an array (isArray) of strings, for the service a
\* JSON object with `topics` and `conductor_comment`.
TopicReplies ==
    { [k |-> "json", isArray |-> TRUE,  hasTopics |-> TRUE,  items |-> <<"Rock", "Pop">>, comment |-> "hi"],
      [k |-> "json", isArray |-> TRUE,  hasTopics |-> TRUE,  items |-> <<"Rock">>,        comment |-> "hi"],
      [k |-> "json", isArray |-> TRUE,  hasTopics |-> TRUE,  items |-> <<>>,              comment |-> "hi"],
      [k |-> "json", isArray |-> FALSE, hasTopics |-> FALSE, items |-> <<>>,              comment |-> "hi"],
      [k |-> "json", isArray |-> TRUE,  hasTopics |-> TRUE,  items |-> <<"Rock", "Pop">>, comment |-> ""],
      [k |-> "garbage", isArray |-> FALSE, hasTopics |-> FALSE, items |-> <<>>, comment |-> ""] }

\* Question replies: `hasOptions` is the truthiness of the options field,
\* `isArray` whether it is an array.
Q(question, hasOptions, options, answer) ==
    [k |-> "json", question |-> question, hasOptions |-> hasOptions, isArray |-> hasOptions,
     options |-> options, answer |-> answer, comment |-> "c"]

QuestionReplies ==
    { Q("Q1", TRUE,  <<"A", "B", "C", "D">>, "A"),
      Q("Q1", TRUE,  <<"A", "B", "C", "D">>, "E"),
      Q("Q1", TRUE,  <<"A", "B", "C">>,      "A"),
      Q("Q1", TRUE,  <<"A", "B", "C", "D">>, ""),
      Q("",   TRUE,  <<"A", "B", "C", "D">>, "A"),
      Q("Q1", FALSE, <<>>,                   "A"),
      [k |-> "garbage", question |-> "", hasOptions |-> FALSE, isArray |-> FALSE,
       options |-> <<>>, answer |-> "", comment |-> ""] }

\* Status-update replies of the service: `hasAdj` is score_adjustment !== undefined.
S(difficulty, hasAdj, adj, summary, tone) ==
    [k |-> "json", challenge_difficulty |-> difficulty, hasAdj |-> hasAdj,
     score_adjustment |-> adj, context_summary |-> summary,
     conversation_tone |-> tone, conductor_comment |-> "c"]

StatusReplies ==
    { S("Medium", TRUE, 1, "s", "Thrilled"),
      S("Easy",   TRUE, -1, "s", "Normal"),
      S("Hard",   TRUE, 7, "s", "Sassy"),
      S("",       TRUE, 1, "s", "Normal"),
      S("Easy",   FALSE, 0, "s", "Normal"),
      [k |-> "garbage", challenge_difficulty |-> "", hasAdj |-> FALSE, score_adjustment |-> 0,
       context_summary |-> "", conversation_tone |-> "", conductor_comment |-> ""] }

\* Commentary replies of src/app.jsx: free text, or a body without candidates.
CommentaryReplies == { [k |-> "text"], [k |-> "garbage"] }

(* ------------------------ game events and UI -------------------------- *)

\* One emitted game event.  `stale` records that the request whose reply
\* caused the emit was issued before the latest showTopicSelection.
Ev == [type |-> "", topics |-> <<>>, options |-> <<>>, answer |-> "", phase |-> "",
       score |-> 0, difficulty |-> "", tone |-> "", message |-> "", isCorrect |-> "null",
       stale |-> FALSE]

CONVERSATION_UPDATE(message) == [Ev EXCEPT !.type = "CONVERSATION_UPDATE", !.message = message]
TOPICS_READY(topics, stale) == [Ev EXCEPT !.type = "TOPICS_READY", !.topics = topics, !.stale = stale]
QUESTION_READY(options, answer, stale) ==
    [Ev EXCEPT !.type = "QUESTION_READY", !.options = options, !.answer = answer,
               !.message = "comment", !.stale = stale]
GUESS_PROCESSED(correctAnswer, isCorrect) ==
    [Ev EXCEPT !.type = "GUESS_PROCESSED", !.answer = correctAnswer, !.isCorrect = isCorrect]
GAME_STATE_UPDATE(score, difficulty, tone, phase, message, isCorrect) ==
    [Ev EXCEPT !.type = "GAME_STATE_UPDATE", !.score = score, !.difficulty = difficulty,
               !.tone = tone, !.phase = phase, !.message = message, !.isCorrect = isCorrect]
LLM_READY == [Ev EXCEPT !.type = "LLM_READY", !.message = "llm_ready"]

\* A JavaScript boolean as carried in an event payload.
Bool(b) == IF b THEN "true" ELSE "false"

initialUIState ==
    [phase |-> "loading", topics |-> <<>>, options |-> <<>>, correctAnswer |-> Null,
     lastGuess |-> Null, score |-> 0, difficulty |-> "Very Easy", tone |-> "Normal",
     isCorrect |-> Null, message |-> "init"]

handleConversationUpdate(u, e) == [u EXCEPT !.message = e.message]

\* src/app.jsx also sets the message; src/app_previous25.jsx leaves it.
handleTopicsReady(u, e) ==
    [u EXCEPT !.topics = e.topics, !.phase = "topic_select",
              !.message = IF variant = "app" THEN "choose" ELSE @]

handleQuestionReady(u, e) ==
    [u EXCEPT !.options = e.options, !.message = e.message, !.phase = "quiz",
              !.correctAnswer = Null, !.lastGuess = Null, !.isCorrect = Null]

handleGameStateUpdate(u, e) ==
    [u EXCEPT !.score = e.score, !.difficulty = e.difficulty, !.tone = e.tone,
              !.phase = e.phase, !.isCorrect = e.isCorrect, !.message = e.message]

\* Registered by src/app_previous25.jsx only; src/app.jsx emits no LLM_READY.
handleLLMReady(u, e) == [u EXCEPT !.message = e.message]

handleGuessProcessed(u, e) == [u EXCEPT !.correctAnswer = e.answer]

\* The listeners of src/unnamed/part_002.  questionReadyListener stores the
\* correct answer at once; finalUpdateListener reads conversation_tone and
\* conductorComment, which a payload may lack.
topicsReadyListener(u, e) ==
    [u EXCEPT !.topics = e.topics, !.message = "select", !.phase = "topic_select",
              !.lastGuess = Null, !.isCorrect = Null]

questionReadyListener(u, e) ==
    [u EXCEPT !.options = e.options, !.correctAnswer = e.answer, !.message = e.message,
              !.phase = "quiz", !.lastGuess = Null, !.isCorrect = Null]

finalUpdateListener(u, e) ==
    [u EXCEPT !.score = e.score, !.difficulty = e.difficulty, !.tone = Undefined,
              !.message = e.message, !.phase = e.phase, !.isCorrect = e.isCorrect]

\* The listener registered for the event's type.
Dispatch(u, e) ==
    CASE variant = "part_002" /\ e.type = "TOPICS_READY"      -> topicsReadyListener(u, e)
      [] variant = "part_002" /\ e.type = "QUESTION_READY"    -> questionReadyListener(u, e)
      [] variant = "part_002" /\ e.type = "GAME_STATE_UPDATE" -> finalUpdateListener(u, e)
      [] variant = "part_002"                                 -> u
      [] e.type = "CONVERSATION_UPDATE" -> handleConversationUpdate(u, e)
      [] e.type = "TOPICS_READY"        -> handleTopicsReady(u, e)
      [] e.type = "QUESTION_READY"      -> handleQuestionReady(u, e)
      [] e.type = "GAME_STATE_UPDATE"   -> handleGameStateUpdate(u, e)
      [] e.type = "GUESS_PROCESSED"     -> handleGuessProcessed(u, e)
      [] e.type = "LLM_READY"           -> handleLLMReady(u, e)
      [] OTHER                          -> u

\* Events are delivered synchronously, in the order of the emits.
RECURSIVE Deliver(_, _)
Deliver(u, evs) ==
    IF evs = <<>> THEN u ELSE Deliver(Dispatch(u, Head(evs)), Tail(evs))

\* updateReactState of src/app.jsx: score, difficulty and tone are copied
\* from the scene on every call.
updateReactState(u, sc, message) ==
    [u EXCEPT !.score = sc.score, !.difficulty = sc.difficulty, !.tone = sc.tone,
              !.message = message]

(* ----------------------------- requests ------------------------------- *)

\* An outstanding request.  kind: "topics" | "question" | "status" |
\* "commentary" are LLM calls, "save" is the Firestore write awaited by
\* processPlayerGuess.  origin: the scene method awaiting it.
Req(kind, origin) ==
    [kind |-> kind, origin |-> origin, attempt |-> 1, stale |-> FALSE, isCorrect |-> FALSE]

IsLLM(r) == r.kind # "save"

\* Outstanding requests and pending delayed calls are bags: their order of
\* issue decides nothing.
Add(bag, x) == bag (+) SetToBag({x})
Del(bag, x) == bag (-) SetToBag({x})

RECURSIVE Count(_, _)
Count(bag, rs) ==
    IF rs = {} THEN 0
    ELSE LET x == CHOOSE y \in rs : TRUE
         IN  CopiesIn(x, bag) + Count(bag, rs \ {x})

\* The number of LLM calls outstanding.
Outstanding == Count(inflight, {r \in BagToSet(inflight) : IsLLM(r)})

\* What the last step settled: the request whose await resumed, and whether the
\* awaited call returned (ok) or threw.
NoneSettled == [kind |-> "none", origin |-> "none", ok |-> FALSE]
Settled(r, ok) == [kind |-> r.kind, origin |-> r.origin, ok |-> ok]

\* The player may click once more.
CanClick == clicks < MaxClicks

(* ------------------------------ scene --------------------------------- *)

NoQuestion == [set |-> FALSE, options |-> <<>>, answer |-> ""]

\* No output of the model is being parsed (the game drafts above abstract a
\* service call to the kind of its reply).
NoOutput == [parser |-> "none", file |-> "none", schemaName |-> "none",
             prefix |-> <<>>, obj |-> <<>>, suffix |-> <<>>,
             done |-> FALSE, out |-> [k |-> "none", fields |-> {}, text |-> <<>>]]

\* getTopics of src/unnamed/part_000 is not running.
NoTopicsCall == [pc |-> "none", outcome |-> "none", text |-> <<>>, arr |-> <<>>,
                 index1 |-> 0, index2 |-> 0, topics |-> <<>>]

\* callGeminiAPI of src/app.jsx is not running (the game drafts abstract a
\* call to its outcome).
NoApiCall == [pc |-> "none", i |-> 0, delay |-> 0, log |-> <<>>, waits |-> <<>>]

\* The Firestore document of src/unnamed/part_002 is not followed (the game
\* drafts abstract saveGameState to a call that settles).
NoStore == [doc |-> [exists |-> FALSE, score |-> 0], synced |-> FALSE,
            view |-> [exists |-> FALSE, score |-> 0], writes |-> <<>>, snaps |-> <<>>,
            currentScore |-> 0, loaded |-> 0, deltas |-> 0, guesses |-> -1]

\* The quiz of src/music_trivia.jsx before its component is mounted.
NoQuiz == [mounted |-> FALSE, loading |-> FALSE, error |-> Null, questions |-> FALSE,
           currentQuestionIndex |-> 0, score |-> 0, showAnswer |-> FALSE,
           selectedOption |-> Null, isGameFinished |-> FALSE, restarts |-> 0]

\* The scene after its constructor.  `answered` records that a guess has been
\* processed for currentQuestionData; `streak` counts the answers of the
\* session while all of them were correct (-1 once one was wrong, or when the
\* session did not start with this state); in the "main" draft score, difficulty,
\* tone, topic and history are the fields of the service's gameState.
SceneInit(v) ==
    [currentQuestionData |-> NoQuestion, answered |-> FALSE, score |-> 0,
     difficulty |-> IF v = "main" THEN "Easy" ELSE "Very Easy",
     tone |-> "Normal", topic |-> IF v = "main" THEN "None" ELSE "",
     history |-> "start", gameDataRef |-> FALSE, streak |-> 0]

Range(seq) == {seq[i] : i \in DOMAIN seq}

\* The rule table of processPlayerGuess.
Points(isCorrect) == IF isCorrect THEN CorrectPoints ELSE 0 - IncorrectPoints

DifficultyFor(score) ==
    IF score >= DifficultScore THEN "Difficult"
    ELSE IF score >= MediumScore THEN "Medium"
    ELSE IF score >= 0 THEN "Easy"
    ELSE "Very Easy"

ToneFor(score) ==
    IF score >= DifficultScore THEN "Challenging"
    ELSE IF score >= MediumScore THEN "Excited"
    ELSE IF score >= 0 THEN "Normal"
    ELSE "Sassy"

\* The state after construction.
FreshSession ==
    /\ variant \in {"app", "main", "part_002"}
    /\ ui = initialUIState
    /\ scene = SceneInit(variant)
    /\ boot = [dbReady |-> FALSE, game |-> (variant # "app"), created |-> FALSE,
               auth |-> 0, llm |-> "pending", uncaught |-> FALSE]
    /\ inflight = EmptyBag

\* A session of src/app.jsx one correct answer short of the win threshold,
\* right after handleContinueClick: the last answer was correct and
\* startNextRound has called getTopics.
LateSession ==
    LET score == WinScore - CorrectPoints
    IN  /\ variant = "app"
        /\ scene = [currentQuestionData |->
                        [set |-> TRUE, options |-> <<"A", "B", "C", "D">>, answer |-> "A"],
                    answered |-> TRUE, score |-> score,
                    difficulty |-> DifficultyFor(score), tone |-> ToneFor(score),
                    topic |-> "Rock", history |-> "start", gameDataRef |-> FALSE,
                    streak |-> -1]
        /\ ui = [phase |-> "loading", topics |-> <<"Rock", "Pop">>,
                 options |-> <<"A", "B", "C", "D">>, correctAnswer |-> "A",
                 lastGuess |-> "A", score |-> score, difficulty |-> DifficultyFor(score),
                 tone |-> ToneFor(score), isCorrect |-> "true", message |-> "preparing"]
        /\ boot = [dbReady |-> TRUE, game |-> TRUE, created |-> TRUE,
                   auth |-> 1, llm |-> "pending", uncaught |-> FALSE]
        /\ inflight = SetToBag({Req("topics", "getTopics")})

Init ==
    /\ FreshSession \/ LateSession
    /\ timers = EmptyBag
    /\ lastEmit = <<>>
    /\ settled = NoneSettled
    /\ clicks = 0
    /\ won = FALSE
    /\ parse = NoOutput
    /\ topicsFile = NoTopicsCall
    /\ api = NoApiCall
    /\ store = NoStore
    /\ quiz = NoQuiz

\* One step of a handler: the scene and UI after it, the requests and delayed
\* calls it leaves outstanding, and the events it emitted (delivered to the UI
\* listeners before the step ends).
Step(sc, u, reqs, tms, evs) ==
    /\ scene' = sc
    /\ ui' = Deliver(u, evs)
    /\ inflight' = reqs
    /\ timers' = tms
    /\ lastEmit' = evs
    /\ UNCHANGED parts

(* ======================= draft "app": src/app.jsx ===================== *)

\* The streak after an answer judged isCorrect.
StreakAfter(streak, isCorrect) == IF isCorrect /\ streak >= 0 THEN streak + 1 ELSE -1

\* initializeLLMAndGetTopics: updateReactState, then getTopics issues the call.
initializeLLMAndGetTopics(sc, u) ==
    Step(sc, updateReactState(u, sc, "generating_topics"),
         Add(inflight, Req("topics", "getTopics")), timers, <<>>)

\* The onAuthStateChanged callback with a signed-in user.  The game is created
\* on the first call; the scene exists for getScene once create has run.
\* loadOrCreateGameState sets gameDataRef and then fails inside its try
\* (getDoc is not imported), which its catch swallows.
onAuthStateChanged ==
    /\ variant = "app"
    /\ boot.auth < MaxAuthEvents
    /\ boot' = [boot EXCEPT !.dbReady = TRUE, !.game = TRUE, !.auth = @ + 1]
    /\ IF boot.created
       THEN initializeLLMAndGetTopics([scene EXCEPT !.gameDataRef = TRUE],
                                         [ui EXCEPT !.message = "auth"])
       ELSE Step(scene, [ui EXCEPT !.message = "auth"], inflight, timers, <<>>)
    /\ settled' = NoneSettled
    /\ UNCHANGED <<variant, clicks, won>>

\* MusicTriviaScene.create of src/app.jsx.
App_create ==
    /\ variant = "app"
    /\ boot.game /\ ~boot.created
    /\ boot' = [boot EXCEPT !.created = TRUE]
    /\ IF boot.dbReady
       THEN initializeLLMAndGetTopics(scene, ui)
       ELSE Step(scene, ui, inflight, timers, <<>>)
    /\ settled' = NoneSettled
    /\ UNCHANGED <<variant, clicks, won>>

\* getTopics after callGeminiAPI returned (ok) or threw.
getTopics(r, ok, reply) ==
    LET valid == ok /\ reply.k = "json" /\ reply.isArray /\ Len(reply.items) > 0
    IN  /\ Step(scene, ui, Del(inflight, r), timers,
                IF valid THEN <<TOPICS_READY(reply.items, r.stale)>>
                ELSE <<CONVERSATION_UPDATE("refresh")>>)
        /\ settled' = Settled(r, valid)

\* The check getNewQuestion makes on the parsed reply.
QuestionAccepted(reply) ==
    /\ reply.k = "json"
    /\ reply.question # ""
    /\ reply.isArray
    /\ Len(reply.options) = RequiredOptions

\* getNewQuestion after callGeminiAPI returned (ok) or threw.
getNewQuestion(r, ok, reply) ==
    /\ settled' = Settled(r, ok /\ QuestionAccepted(reply))
    /\ IF ok /\ QuestionAccepted(reply)
       THEN Step([scene EXCEPT !.currentQuestionData =
                                   [set |-> TRUE, options |-> reply.options, answer |-> reply.answer],
                               !.answered = FALSE],
                 ui, Del(inflight, r), timers,
                 <<QUESTION_READY(reply.options, reply.answer, r.stale)>>)
       ELSE Step(scene, ui, Del(inflight, r), timers,
                 <<CONVERSATION_UPDATE("apology"), TOPICS_READY(<<>>, r.stale)>>)

\* A getConductorCommentary that takes the verdict it announces from the
\* outcome of the commentary call instead of from the guess.
getConductorCommentary_verdictFromReply(r, ok, reply) ==
    /\ settled' = Settled(r, ok /\ reply.k = "text")
    /\ Step(scene, ui, Del(inflight, r), timers,
            <<GAME_STATE_UPDATE(scene.score, scene.difficulty, scene.tone, "quiz_result",
                                IF ok /\ reply.k = "text" THEN "comment" ELSE "fallback_comment",
                                Bool(ok /\ reply.k = "text"))>>)

\* getConductorCommentary after callGeminiAPI returned (ok) or threw: both
\* branches emit GAME_STATE_UPDATE with phase quiz_result.
getConductorCommentary(r, ok, reply) ==
    /\ settled' = Settled(r, ok /\ reply.k = "text")
    /\ Step(scene, ui, Del(inflight, r), timers,
            <<GAME_STATE_UPDATE(scene.score, scene.difficulty, scene.tone, "quiz_result",
                                IF ok /\ reply.k = "text" THEN "comment" ELSE "fallback_comment",
                                Bool(r.isCorrect))>>)

\* callGeminiAPI: a failed attempt (thrown fetch or non-ok response).  It is
\* retried after the backoff delay until MAX_RETRIES attempts were made, then
\* the call throws into the caller's catch.
App_fetchFailed(r) ==
    /\ variant = "app"
    /\ r \in BagToSet(inflight)
    /\ IsLLM(r)
    /\ IF r.attempt < MAX_RETRIES
       THEN /\ Step(scene, ui, Add(Del(inflight, r), [r EXCEPT !.attempt = @ + 1]), timers, <<>>)
            /\ settled' = NoneSettled
       ELSE CASE r.kind = "topics"     -> getTopics(r, FALSE, [k |-> "none"])
              [] r.kind = "question"   -> getNewQuestion(r, FALSE, [k |-> "none"])
              [] r.kind = "commentary" -> getConductorCommentary(r, FALSE, [k |-> "none"])
    /\ UNCHANGED <<variant, boot, clicks, won>>

\* callGeminiAPI: an attempt whose response is ok; the caller continues.
App_fetchOk(r) ==
    /\ variant = "app"
    /\ r \in BagToSet(inflight)
    /\ IsLLM(r)
    /\ CASE r.kind = "topics" ->
                \E reply \in TopicReplies : getTopics(r, TRUE, reply)
         [] r.kind = "question" ->
                \E reply \in QuestionReplies : getNewQuestion(r, TRUE, reply)
         [] r.kind = "commentary" ->
                \E reply \in CommentaryReplies : getConductorCommentary(r, TRUE, reply)
    /\ UNCHANGED <<variant, boot, clicks, won>>

\* saveGameState's updateDoc settles (its rejection is caught): processPlayerGuess
\* goes on to getConductorCommentary, which issues the commentary call.
App_saveSettled(r) ==
    /\ variant = "app"
    /\ r \in BagToSet(inflight)
    /\ r.kind = "save"
    /\ Step(scene, ui, Add(Del(inflight, r), [r EXCEPT !.kind = "commentary"]), timers, <<>>)
    /\ settled' = NoneSettled
    /\ UNCHANGED <<variant, boot, clicks, won>>

\* processPlayerGuess of src/app.jsx up to its first suspension.
App_processPlayerGuess(u, guess) ==
    IF ~scene.currentQuestionData.set
    THEN Step(scene, u, inflight, timers, <<>>)
    ELSE LET correctAnswer == scene.currentQuestionData.answer
             isCorrect == guess = correctAnswer
             score == scene.score + Points(isCorrect)
             sc == [scene EXCEPT !.score = score, !.difficulty = DifficultyFor(score),
                                 !.tone = ToneFor(score), !.answered = TRUE,
                                 !.streak = StreakAfter(@, isCorrect)]
             r == [Req(IF scene.gameDataRef THEN "save" ELSE "commentary", "getConductorCommentary")
                      EXCEPT !.isCorrect = isCorrect]
         IN  Step(sc, u, Add(inflight, r), timers, <<GUESS_PROCESSED(correctAnswer, Undefined)>>)

\* handleAnswerClick of src/app.jsx on one of the rendered answer buttons.
App_handleAnswerClick ==
    /\ variant = "app"
    /\ boot.created
    /\ ui.phase = "quiz" /\ ui.correctAnswer = Null /\ ui.lastGuess = Null
    /\ CanClick
    /\ \E guess \in Range(ui.options) :
           App_processPlayerGuess([ui EXCEPT !.lastGuess = guess], guess)
    /\ clicks' = clicks + 1
    /\ settled' = NoneSettled
    /\ UNCHANGED <<variant, boot, won>>

\* handleTopicClick of src/app.jsx: handleTopicSelection, then getNewQuestion
\* up to its call of callGeminiAPI.
App_handleTopicClick ==
    /\ variant = "app"
    /\ boot.created
    /\ ui.phase = "topic_select"
    /\ CanClick
    /\ \E topic \in Range(ui.topics) :
           LET sc == [scene EXCEPT !.topic = topic]
           IN  Step(sc, updateReactState([ui EXCEPT !.phase = "loading"], sc, "generating_question"),
                    Add(inflight, Req("question", "getNewQuestion")), timers, <<>>)
    /\ clicks' = clicks + 1
    /\ settled' = NoneSettled
    /\ UNCHANGED <<variant, boot, won>>

\* handleContinueClick of src/app.jsx, then startNextRound.
App_handleContinueClick ==
    /\ variant = "app"
    /\ boot.created
    /\ ui.phase = "quiz_result"
    /\ CanClick
    /\ LET u == [ui EXCEPT !.phase = "loading", !.message = "preparing"]
       IN  IF scene.score >= WinScore
           THEN /\ Step(scene, u, inflight, timers, <<CONVERSATION_UPDATE("congratulations")>>)
                /\ won' = TRUE
           ELSE /\ Step(scene, u, Add(inflight, Req("topics", "getTopics")), timers, <<>>)
                /\ won' = won
    /\ clicks' = clicks + 1
    /\ settled' = NoneSettled
    /\ UNCHANGED <<variant, boot>>

(* ===== draft "main": src/main.js, src/unnamed/part_001, src/app_previous25.jsx ===== *)

DefaultTopics == <<"80s Pop Music", "Travel Trivia", "SF Sports History">>

\* The reply sets of the service calls: the backend call may also throw.
WithFailure(replies) == replies \cup {[(CHOOSE x \in replies : x.k = "garbage") EXCEPT !.k = "fail"]}

\* runLLM_Topic_Command returns (does not throw).
TopicCommandOk(reply) == reply.k = "json" /\ reply.hasTopics /\ reply.comment # ""

\* runLLM_Question_Command returns (does not throw).
QuestionCommandOk(reply) ==
    /\ reply.k = "json"
    /\ reply.question # ""
    /\ reply.hasOptions
    /\ reply.answer # ""
    /\ reply.comment # ""

\* runLLM_Command returns (does not throw).
StatusCommandOk(reply) ==
    /\ reply.k = "json"
    /\ reply.challenge_difficulty # ""
    /\ reply.hasAdj
    /\ reply.context_summary # ""

StaleCopy(q) == [q EXCEPT !.stale = TRUE]
MarkStale(reqs) == BagOfAll(StaleCopy, reqs)

\* showTopicSelection up to its await of getNewTopics; `pre` are the events the
\* caller emitted before calling it.
showTopicSelection(sc, u, reqs, tms, pre) ==
    Step(sc, u, Add(MarkStale(reqs), Req("topics", "showTopicSelection")), tms,
         pre \o <<CONVERSATION_UPDATE("warming_up")>>)

\* MusicTriviaScene.create of src/main.js, once the promise of initializeLLM
\* settles.  When it rejects, create rejects at its await, which no try
\* encloses, and does nothing more: boot.uncaught records the error that left
\* the scene uncaught.
Main_create ==
    /\ variant = "main"
    /\ boot.llm = "pending"
    /\ \E ok \in BOOLEAN :
         IF ok
         THEN /\ boot' = [boot EXCEPT !.llm = "ready", !.created = TRUE]
              /\ showTopicSelection(scene, ui, inflight, timers, <<LLM_READY>>)
         ELSE /\ boot' = [boot EXCEPT !.llm = "failed", !.uncaught = TRUE]
              /\ Step(scene, ui, inflight, timers, <<>>)
    /\ settled' = NoneSettled
    /\ UNCHANGED <<variant, clicks, won>>

\* showTopicSelection after getNewTopics settled.
Main_topicsReply(r) ==
    /\ variant = "main"
    /\ r \in BagToSet(inflight)
    /\ r.kind = "topics"
    /\ \E reply \in WithFailure(TopicReplies) :
         /\ settled' = Settled(r, TopicCommandOk(reply))
         /\ Step(scene, ui, Del(inflight, r), timers,
                 <<TOPICS_READY(IF TopicCommandOk(reply) THEN reply.items ELSE DefaultTopics,
                                r.stale)>>)
    /\ UNCHANGED <<variant, boot, clicks, won>>

\* handleTopicClick of src/app_previous25.jsx, then handleTopicSelection of
\* src/main.js up to its await of getNextChallenge.
Main_handleTopicClick ==
    /\ variant = "main"
    /\ boot.created
    /\ ui.phase = "topic_select"
    /\ CanClick
    /\ \E topic \in Range(ui.topics) :
           LET sc == [scene EXCEPT !.topic = topic]
           IN  Step(sc, [ui EXCEPT !.phase = "loading", !.message = "topic_selected"],
                    Add(inflight, Req("question", "handleTopicSelection")), timers,
                    <<GAME_STATE_UPDATE(sc.score, sc.difficulty, sc.tone, "loading", Undefined, Undefined),
                      CONVERSATION_UPDATE("generating_question")>>)
    /\ clicks' = clicks + 1
    /\ settled' = NoneSettled
    /\ UNCHANGED <<variant, boot, won>>

\* handleTopicSelection (origin "handleTopicSelection") or startChallenge
\* (origin "startChallenge") after getNextChallenge settled.
Main_questionReply(r) ==
    /\ variant = "main"
    /\ r \in BagToSet(inflight)
    /\ r.kind = "question"
    /\ \E reply \in WithFailure(QuestionReplies) :
         LET installed == [scene EXCEPT !.currentQuestionData =
                               [set |-> TRUE, options |-> reply.options, answer |-> reply.answer],
                                        !.answered = FALSE]
             ready == QUESTION_READY(reply.options, reply.answer, r.stale)
         IN  /\ settled' = Settled(r, QuestionCommandOk(reply))
             /\ IF QuestionCommandOk(reply)
                THEN Step(installed, ui, Del(inflight, r), timers, <<ready>>)
                ELSE IF r.origin = "handleTopicSelection"
                THEN Step(scene, ui, Del(inflight, r), timers,
                          <<QUESTION_READY(<<"Restart">>, "Restart", r.stale)>>)
                ELSE Step(scene, ui, Del(inflight, r), Add(timers, "showTopicSelection"),
                          <<CONVERSATION_UPDATE("error_in_stream")>>)
    /\ UNCHANGED <<variant, boot, clicks, won>>

\* handleAnswerClick of src/app_previous25.jsx, then processPlayerGuess of
\* src/main.js up to its await of updateStatus.
Main_handleAnswerClick ==
    /\ variant = "main"
    /\ boot.created
    /\ ui.phase = "quiz" /\ ui.correctAnswer = Null
    /\ CanClick
    /\ \E guess \in Range(ui.options) :
         LET u == [ui EXCEPT !.lastGuess = guess]
             isCorrect == guess = scene.currentQuestionData.answer
         IN  IF ~scene.currentQuestionData.set
             THEN showTopicSelection(scene, u, inflight, timers, <<>>)
             ELSE Step([scene EXCEPT !.answered = TRUE,
                                     !.streak = StreakAfter(@, isCorrect)], u,
                       Add(inflight, [Req("status", "processPlayerGuess")
                                            EXCEPT !.isCorrect = isCorrect]),
                       timers,
                       <<GUESS_PROCESSED(scene.currentQuestionData.answer, Bool(isCorrect))>>)
    /\ clicks' = clicks + 1
    /\ settled' = NoneSettled
    /\ UNCHANGED <<variant, boot, won>>

\* processPlayerGuess with a catch that still writes the summary of the reply.
Main_statusReply_writesOnFailure(r) ==
    /\ variant = "main"
    /\ r \in BagToSet(inflight)
    /\ r.kind = "status"
    /\ \E reply \in WithFailure(StatusReplies) :
         /\ settled' = Settled(r, StatusCommandOk(reply))
         /\ IF StatusCommandOk(reply)
            THEN LET sc == [scene EXCEPT !.score = @ + reply.score_adjustment,
                                         !.difficulty = reply.challenge_difficulty,
                                         !.history = reply.context_summary,
                                         !.tone = reply.conversation_tone]
                 IN  Step(sc, ui, Del(inflight, r), Add(timers, "startChallenge"),
                          <<GAME_STATE_UPDATE(sc.score, sc.difficulty, sc.tone, "quiz_result",
                                              "comment", Bool(r.isCorrect))>>)
            ELSE Step([scene EXCEPT !.history = reply.context_summary], ui, Del(inflight, r),
                      Add(timers, "startChallenge"),
                      <<CONVERSATION_UPDATE("score_update_failed")>>)
    /\ UNCHANGED <<variant, boot, clicks, won>>

\* processPlayerGuess after updateStatus settled: the reply's score_adjustment,
\* difficulty, summary and tone are written to gameState; then the next
\* challenge is scheduled with delayedCall.
Main_statusReply(r) ==
    /\ variant = "main"
    /\ r \in BagToSet(inflight)
    /\ r.kind = "status"
    /\ \E reply \in WithFailure(StatusReplies) :
         /\ settled' = Settled(r, StatusCommandOk(reply))
         /\ IF StatusCommandOk(reply)
            THEN LET sc == [scene EXCEPT !.score = @ + reply.score_adjustment,
                                         !.difficulty = reply.challenge_difficulty,
                                         !.history = reply.context_summary,
                                         !.tone = reply.conversation_tone]
                 IN  Step(sc, ui, Del(inflight, r), Add(timers, "startChallenge"),
                          <<GAME_STATE_UPDATE(sc.score, sc.difficulty, sc.tone, "quiz_result",
                                              "comment", Bool(r.isCorrect))>>)
            ELSE Step(scene, ui, Del(inflight, r), Add(timers, "startChallenge"),
                      <<CONVERSATION_UPDATE("score_update_failed")>>)
    /\ UNCHANGED <<variant, boot, clicks, won>>

\* A delayed call fires: startChallenge(gameState.last_topic) up to its await of
\* getNextChallenge, or showTopicSelection.
Main_delayedCall(t) ==
    /\ variant = "main"
    /\ t \in BagToSet(timers)
    /\ IF t = "startChallenge"
       THEN Step(scene, ui, Add(inflight, Req("question", "startChallenge")), Del(timers, t),
                 <<CONVERSATION_UPDATE("awaiting_next_move")>>)
       ELSE showTopicSelection(scene, ui, inflight, Del(timers, t), <<>>)
    /\ settled' = NoneSettled
    /\ UNCHANGED <<variant, boot, clicks, won>>

(* ================= draft "part_002": src/unnamed/part_002 ============== *)

\* The topics getTopics draws from (the first of its list).
TopicPool == {"80s Music", "90s Music"}

\* getTopics: two different topics drawn at random, announced at once.
P2_getTopics == {TOPICS_READY(<<a, b>>, FALSE) : a, b \in TopicPool} \
                {TOPICS_READY(<<a, a>>, FALSE) : a \in TopicPool}

\* The points table of processPlayerGuess.
P2_Points(difficulty, isCorrect) ==
    CASE difficulty = "Very Easy"  -> IF isCorrect THEN 50 ELSE -25
      [] difficulty = "Easy"       -> IF isCorrect THEN 100 ELSE -50
      [] difficulty = "Normal"     -> IF isCorrect THEN 200 ELSE -100
      [] difficulty = "Hard"       -> IF isCorrect THEN 400 ELSE -200
      [] difficulty = "Impossible" -> IF isCorrect THEN 800 ELSE -400
      [] OTHER                     -> 0

\* The check getNewQuestion of src/unnamed/part_002 makes on the parsed reply.
P2_QuestionAccepted(reply) ==
    /\ reply.k = "json"
    /\ reply.question # ""
    /\ reply.hasOptions
    /\ reply.answer # ""

\* create and initGameSequence: loadOrCreateGameState sets gameDataRef, then
\* initializeLLM settles; when the model is ready getTopics runs.
P2_initGameSequence ==
    /\ variant = "part_002"
    /\ ~boot.created
    /\ \E ok \in BOOLEAN :
         LET sc == [scene EXCEPT !.gameDataRef = TRUE]
         IN  IF ok
             THEN /\ boot' = [boot EXCEPT !.created = TRUE, !.llm = "ready"]
                  /\ \E e \in P2_getTopics :
                       Step(sc, [ui EXCEPT !.message = "initializing_llm"], inflight, timers, <<e>>)
             ELSE /\ boot' = [boot EXCEPT !.created = TRUE, !.llm = "failed"]
                  /\ Step(sc, [ui EXCEPT !.message = "llm_failed"], inflight, timers, <<>>)
    /\ settled' = NoneSettled
    /\ UNCHANGED <<variant, clicks, won>>

\* handleTopicClick, then handleTopicSelection and getNewQuestion up to the
\* await of runLLM_API_Call.  The click leaves the phase as it is.
P2_handleTopicClick ==
    /\ variant = "part_002"
    /\ boot.created
    /\ ui.phase = "topic_select"
    /\ CanClick
    /\ \E topic \in Range(ui.topics) :
         Step([scene EXCEPT !.topic = topic], [ui EXCEPT !.message = "generating_question"],
              Add(inflight, Req("question", "getNewQuestion")), timers, <<>>)
    /\ clicks' = clicks + 1
    /\ settled' = NoneSettled
    /\ UNCHANGED <<variant, boot, won>>

\* getNewQuestion after runLLM_API_Call returned or threw.
P2_questionReply(r) ==
    /\ variant = "part_002"
    /\ r \in BagToSet(inflight)
    /\ r.kind = "question"
    /\ \E reply \in WithFailure(QuestionReplies) :
         /\ settled' = Settled(r, P2_QuestionAccepted(reply))
         /\ IF P2_QuestionAccepted(reply)
            THEN Step([scene EXCEPT !.currentQuestionData =
                          [set |-> TRUE, options |-> reply.options, answer |-> reply.answer],
                                    !.answered = FALSE],
                      ui, Del(inflight, r), timers,
                      <<QUESTION_READY(reply.options, reply.answer, FALSE)>>)
            ELSE \E e \in P2_getTopics :
                   Step(scene, ui, Del(inflight, r), timers,
                        <<GAME_STATE_UPDATE(Undefined, Undefined, Undefined, "topic_select",
                                            Undefined, Undefined), e>>)
    /\ UNCHANGED <<variant, boot, clicks, won>>

\* handleAnswerClick, then processPlayerGuess up to the await in saveGameState.
P2_handleAnswerClick ==
    /\ variant = "part_002"
    /\ boot.created
    /\ ui.phase = "quiz"
    /\ CanClick
    /\ \E guess \in Range(ui.options) :
         LET u == [ui EXCEPT !.message = "processing"]
             isCorrect == guess = scene.currentQuestionData.answer
         IN  IF ~scene.currentQuestionData.set
             THEN Step(scene, u, inflight, timers, <<>>)
             ELSE Step([scene EXCEPT !.score = @ + P2_Points(scene.difficulty, isCorrect),
                                     !.answered = TRUE,
                                     !.streak = StreakAfter(@, isCorrect)],
                       u, Add(inflight, [Req("save", "processPlayerGuess")
                                            EXCEPT !.isCorrect = isCorrect]),
                       timers, <<>>)
    /\ clicks' = clicks + 1
    /\ settled' = NoneSettled
    /\ UNCHANGED <<variant, boot, won>>

\* saveGameState's updateDoc settles: getConductorCommentary issues its call.
P2_saveSettled(r) ==
    /\ variant = "part_002"
    /\ r \in BagToSet(inflight)
    /\ r.kind = "save"
    /\ Step(scene, ui, Add(Del(inflight, r), [r EXCEPT !.kind = "commentary"]), timers, <<>>)
    /\ settled' = NoneSettled
    /\ UNCHANGED <<variant, boot, clicks, won>>

\* getConductorCommentary after runLLM_API_Call returned or threw: both
\* branches emit GAME_STATE_UPDATE with phase quiz_result.
P2_commentaryReply(r) ==
    /\ variant = "part_002"
    /\ r \in BagToSet(inflight)
    /\ r.kind = "commentary"
    /\ \E ok \in BOOLEAN :
         /\ settled' = Settled(r, ok)
         /\ Step(scene, ui, Del(inflight, r), timers,
                 <<GAME_STATE_UPDATE(scene.score, scene.difficulty, scene.tone, "quiz_result",
                                     IF ok THEN "comment" ELSE "fallback_comment",
                                     Bool(r.isCorrect))>>)
    /\ UNCHANGED <<variant, boot, clicks, won>>

\* handleContinueClick, then startNextRound: at the win threshold the UI is
\* put in phase loading with the closing message, else getTopics runs.
P2_handleContinueClick ==
    /\ variant = "part_002"
    /\ boot.created
    /\ ui.phase = "quiz_result"
    /\ CanClick
    /\ LET u == [ui EXCEPT !.message = "preparing"]
       IN  IF scene.score >= WinScore
           THEN /\ Step(scene, [u EXCEPT !.message = "congratulations", !.phase = "loading"],
                        inflight, timers, <<>>)
                /\ won' = TRUE
           ELSE /\ \E e \in P2_getTopics : Step(scene, u, inflight, timers, <<e>>)
                /\ won' = won
    /\ clicks' = clicks + 1
    /\ settled' = NoneSettled
    /\ UNCHANGED <<variant, boot>>

Next ==
    \/ onAuthStateChanged
    \/ App_create
    \/ \E r \in BagToSet(inflight) : App_fetchFailed(r)
    \/ \E r \in BagToSet(inflight) : App_fetchOk(r)
    \/ \E r \in BagToSet(inflight) : App_saveSettled(r)
    \/ App_handleAnswerClick
    \/ App_handleTopicClick
    \/ App_handleContinueClick
    \/ Main_create
    \/ \E r \in BagToSet(inflight) : Main_topicsReply(r)
    \/ Main_handleTopicClick
    \/ \E r \in BagToSet(inflight) : Main_questionReply(r)
    \/ Main_handleAnswerClick
    \/ \E r \in BagToSet(inflight) : Main_statusReply(r)
    \/ \E t \in BagToSet(timers) : Main_delayedCall(t)
    \/ P2_initGameSequence
    \/ P2_handleTopicClick
    \/ \E r \in BagToSet(inflight) : P2_questionReply(r)
    \/ P2_handleAnswerClick
    \/ \E r \in BagToSet(inflight) : P2_saveSettled(r)
    \/ \E r \in BagToSet(inflight) : P2_commentaryReply(r)
    \/ P2_handleContinueClick

Spec == Init /\ [][Next]_vars

\* The steps the program takes by itself: start-up (the first sign-in and
\* create), the settling of awaited calls and the firing of delayed calls.
\* Clicks are the player's choice, and no further sign-in need happen.
Settle ==
    \/ boot.auth = 0 /\ onAuthStateChanged
    \/ App_create
    \/ \E r \in BagToSet(inflight) : App_fetchFailed(r)
    \/ \E r \in BagToSet(inflight) : App_fetchOk(r)
    \/ \E r \in BagToSet(inflight) : App_saveSettled(r)
    \/ Main_create
    \/ \E r \in BagToSet(inflight) : Main_topicsReply(r)
    \/ \E r \in BagToSet(inflight) : Main_questionReply(r)
    \/ \E r \in BagToSet(inflight) : Main_statusReply(r)
    \/ \E t \in BagToSet(timers) : Main_delayedCall(t)
    \/ P2_initGameSequence
    \/ \E r \in BagToSet(inflight) : P2_questionReply(r)
    \/ \E r \in BagToSet(inflight) : P2_saveSettled(r)
    \/ \E r \in BagToSet(inflight) : P2_commentaryReply(r)

\* Every awaited call eventually returns or throws, every delayed call
\* eventually fires, and start-up eventually runs; the player need not click.
FairSpec == Spec /\ WF_vars(Settle)

(* ============ the parsers of the model's output (pure functions) ====== *)
(* src/unnamed/part_001 and src/llm_service.js: runLLM_Command,            *)
(* runLLM_Topic_Command, runLLM_Question_Command; src/unnamed/part_002:    *)
(* runLLM_API_Call.  A text is a sequence of tokens: "{" and "}", a        *)
(* markdown fence "fence" (three backticks), a period ".", a newline     *)
(* "\n", a prose word "w",                                                *)
(* and one token per object member, named by its field (a member with a   *)
(* truthy value).                                                          *)

\* The longest wrapping (prefix and suffix together) around an object.
MaxWrap == 2

GAME_STATE_FIELDS == <<"challenge_difficulty", "score_adjustment", "context_summary",
                       "conversation_tone", "conductor_comment">>
TOPIC_FIELDS == <<"topics", "conductor_comment">>
QUESTION_FIELDS == <<"question_text", "correct_answer", "options", "conductor_comment">>

\* The members the prompt of getNewQuestion in src/unnamed/part_002 asks for.
P2_QUESTION_FIELDS == <<"question", "options", "correct_answer", "comment">>

FieldTokens == Range(GAME_STATE_FIELDS) \cup Range(TOPIC_FIELDS) \cup Range(QUESTION_FIELDS)
                   \cup Range(P2_QUESTION_FIELDS)

WrapTokens == {"{", "}", "fence", ".", "\n", "w"}

\* Prose and markdown fences without a brace.
PlainTokens == WrapTokens \ {"{", "}"}

\* The text of the JSON object with the given members.
ObjectText(members) == <<"{">> \o members \o <<"}">>

\* members without its i-th.
Without(members, i) == SubSeq(members, 1, i - 1) \o SubSeq(members, i + 1, Len(members))

\* The member lists of the objects a reply may hold: a schema's object, the
\* same with one member missing, and the empty object.
MemberLists ==
    LET Of(fs) == {fs} \cup {Without(fs, i) : i \in DOMAIN fs}
    IN  Of(GAME_STATE_FIELDS) \cup Of(TOPIC_FIELDS) \cup Of(QUESTION_FIELDS)
            \cup Of(P2_QUESTION_FIELDS) \cup {<<>>}

\* String.prototype.trim: leading and trailing whitespace removed.
RECURSIVE trim(_)
trim(str) ==
    IF str = <<>> THEN str
    ELSE IF Head(str) = "\n" THEN trim(Tail(str))
    ELSE IF str[Len(str)] = "\n" THEN trim(SubSeq(str, 1, Len(str) - 1))
    ELSE str

\* indexOf and lastIndexOf, counted from 1; 0 when the token does not occur
\* (-1 in the source, which counts from 0).
indexOf(str, c) ==
    IF \E i \in DOMAIN str : str[i] = c
    THEN CHOOSE i \in DOMAIN str : str[i] = c /\ \A j \in 1..(i - 1) : str[j] # c
    ELSE 0

lastIndexOf(str, c) ==
    IF \E i \in DOMAIN str : str[i] = c
    THEN CHOOSE i \in DOMAIN str : str[i] = c /\ \A j \in (i + 1)..Len(str) : str[j] # c
    ELSE 0

endsWith(str, c) == str # <<>> /\ str[Len(str)] = c

\* Step 2 of the cleaning: everything after the last "}" is cut.  The
\* parsers of src/llm_service.js have no such step.
cutAfterLastBracket(jsonString) ==
    IF lastIndexOf(jsonString, "}") > 0
    THEN SubSeq(jsonString, 1, lastIndexOf(jsonString, "}"))
    ELSE jsonString

\* Step 3: a trailing markdown fence is removed.
removeTrailingFence(jsonString) ==
    IF endsWith(jsonString, "fence")
    THEN trim(SubSeq(jsonString, 1, lastIndexOf(jsonString, "fence") - 1))
    ELSE jsonString

\* Step 4: trailing periods and newlines are removed.
RECURSIVE removeTrailingPeriods(_)
removeTrailingPeriods(jsonString) ==
    IF endsWith(jsonString, ".") \/ endsWith(jsonString, "\n")
    THEN removeTrailingPeriods(trim(SubSeq(jsonString, 1, Len(jsonString) - 1)))
    ELSE jsonString

\* The cleaning from the first "{" on; withLastBracket tells whether the
\* parser has step 2.
clean(jsonString, withLastBracket) ==
    LET fromFirst == SubSeq(jsonString, indexOf(jsonString, "{"), Len(jsonString))
        cut == IF withLastBracket THEN cutAfterLastBracket(fromFirst) ELSE fromFirst
    IN  removeTrailingPeriods(removeTrailingFence(cut))

\* JSON.parse on a text that starts with "{": whitespace between tokens is
\* skipped; the text is an object when it is "{", members, "}" and nothing
\* else.
JSONparses(jsonString) ==
    LET t == SelectSeq(jsonString, LAMBDA c : c # "\n")
    IN  /\ Len(t) >= 2
        /\ t[1] = "{" /\ t[Len(t)] = "}"
        /\ \A i \in 2..(Len(t) - 1) : t[i] \in FieldTokens

JSONparse(jsonString) ==
    LET t == SelectSeq(jsonString, LAMBDA c : c # "\n")
    IN  {t[i] : i \in 2..(Len(t) - 1)}

Returned(fields) == [k |-> "object", fields |-> fields, text |-> <<>>]
ReturnedText(text) == [k |-> "text", fields |-> {}, text |-> text]
Thrown(error) == [k |-> error, fields |-> {}, text |-> <<>>]

\* The parsers of the service: the text of the reply is trimmed and cleaned,
\* parsed, and the result returned when the checked members are truthy.
\* Every failure after the cleaning, of JSON.parse or of the check, is
\* rethrown as "Failed to parse LLM output".
runLLM_Parser(fullResponseText, withLastBracket, checked) ==
    LET jsonString == trim(fullResponseText)
        cleaned == clean(jsonString, withLastBracket)
    IN  IF indexOf(jsonString, "{") = 0 THEN Thrown("no_start_bracket")
        ELSE IF ~JSONparses(cleaned) THEN Thrown("failed_to_parse")
        ELSE IF ~(checked \subseteq JSONparse(cleaned)) THEN Thrown("failed_to_parse")
        ELSE Returned(JSONparse(cleaned))

\* The members runLLM_Command checks before it returns.
CheckedByCommand == {"challenge_difficulty", "score_adjustment", "context_summary"}

runLLM_Command(fullResponseText) ==
    runLLM_Parser(fullResponseText, TRUE, CheckedByCommand)

runLLM_Topic_Command(file, fullResponseText) ==
    runLLM_Parser(fullResponseText, file = "part_001", Range(TOPIC_FIELDS))

runLLM_Question_Command(file, fullResponseText) ==
    runLLM_Parser(fullResponseText, file = "part_001", Range(QUESTION_FIELDS))

\* runLLM_API_Call of src/unnamed/part_002: a text without "{" is returned as
\* it is when the schema name is empty; the parsed object is not checked.
runLLM_API_Call(fullResponseText, schemaName) ==
    IF indexOf(trim(fullResponseText), "{") = 0 /\ schemaName = ""
    THEN ReturnedText(fullResponseText)
    ELSE runLLM_Parser(fullResponseText, TRUE, {})

\* The members the schema of a parser requires.
RequiredFields(parser, schemaName) ==
    CASE parser = "runLLM_Command"          -> Range(GAME_STATE_FIELDS)
      [] parser = "runLLM_Topic_Command"    -> Range(TOPIC_FIELDS)
      [] parser = "runLLM_Question_Command" -> Range(QUESTION_FIELDS)
      [] schemaName = "QuestionSchema"      -> Range(P2_QUESTION_FIELDS)
      [] OTHER                              -> {}

\* The wrappings: a prefix and a suffix of at most MaxWrap tokens together.
RECURSIVE TextsOfLength(_)
TextsOfLength(n) ==
    IF n = 0 THEN {<<>>}
    ELSE {Append(t, c) : t \in TextsOfLength(n - 1), c \in WrapTokens}

Wrappings ==
    UNION {TextsOfLength(n[1]) \X TextsOfLength(n[2]) :
               n \in {m \in (0..MaxWrap) \X (0..MaxWrap) : m[1] + m[2] <= MaxWrap}}

\* The calls: the parser, the file it is in and the schema name it is given.
ParserCalls ==
    {<<"runLLM_Command", "part_001", "GAME_STATE">>,
     <<"runLLM_Topic_Command", "part_001", "TOPIC">>,
     <<"runLLM_Question_Command", "part_001", "QUESTION">>,
     <<"runLLM_Topic_Command", "llm_service.js", "TOPIC">>,
     <<"runLLM_Question_Command", "llm_service.js", "QUESTION">>,
     <<"runLLM_API_Call", "part_002", "QuestionSchema">>,
     <<"runLLM_API_Call", "part_002", "">>}

\* The text the model streamed: an object, or none, between prefix and suffix.
fullResponseText == parse.prefix \o parse.obj \o parse.suffix

\* The game is at rest while a function is examined on its own.
GameIdle ==
    /\ variant = "main"
    /\ ui = initialUIState
    /\ scene = SceneInit("main")
    /\ boot = [dbReady |-> FALSE, game |-> TRUE, created |-> TRUE, auth |-> 0, llm |-> "ready", uncaught |-> FALSE]
    /\ inflight = EmptyBag
    /\ timers = EmptyBag
    /\ lastEmit = <<>>
    /\ settled = NoneSettled
    /\ clicks = 0
    /\ won = FALSE

ParserInit ==
    /\ GameIdle
    /\ topicsFile = NoTopicsCall
    /\ api = NoApiCall
    /\ store = NoStore
    /\ quiz = NoQuiz
    /\ \E call \in ParserCalls, w \in Wrappings,
          obj \in {ObjectText(m) : m \in MemberLists} \cup {<<>>} :
         parse = [NoOutput EXCEPT !.parser = call[1], !.file = call[2], !.schemaName = call[3],
                                  !.prefix = w[1], !.obj = obj, !.suffix = w[2]]

ParserStep(out) ==
    /\ ~parse.done
    /\ parse' = [parse EXCEPT !.done = TRUE, !.out = out]
    /\ UNCHANGED <<gameVars, topicsFile, api, store, quiz>>

Parse_runLLM_Command ==
    /\ parse.parser = "runLLM_Command"
    /\ ParserStep(runLLM_Command(fullResponseText))

Parse_runLLM_Topic_Command ==
    /\ parse.parser = "runLLM_Topic_Command"
    /\ ParserStep(runLLM_Topic_Command(parse.file, fullResponseText))

Parse_runLLM_Question_Command ==
    /\ parse.parser = "runLLM_Question_Command"
    /\ ParserStep(runLLM_Question_Command(parse.file, fullResponseText))

Parse_runLLM_API_Call ==
    /\ parse.parser = "runLLM_API_Call"
    /\ ParserStep(runLLM_API_Call(fullResponseText, parse.schemaName))

ParserNext ==
    \/ Parse_runLLM_Command
    \/ Parse_runLLM_Topic_Command
    \/ Parse_runLLM_Question_Command
    \/ Parse_runLLM_API_Call

ParserSpec == ParserInit /\ [][ParserNext]_vars

(* ============ getTopics of src/unnamed/part_000 (topics.txt) ========== *)

\* The most lines topics.txt has.
MaxLines == 3

defaultTopics == <<"Default Topic 1", "Default Topic 2", "Default Topic 3">>

\* The lines of topics.txt as fetched: empty, blank, or a topic.
RawLines == {"", " ", "Rock", "Pop"}

RECURSIVE FilesOfLength(_)
FilesOfLength(n) ==
    IF n = 0 THEN {<<>>}
    ELSE {Append(t, l) : t \in FilesOfLength(n - 1), l \in RawLines}

\* t.trim() of a line.
trimLine(t) == IF t = " " THEN "" ELSE t

\* split, map(trim) and filter(length > 0) of the text.
TopicLines(text) ==
    SelectSeq([i \in DOMAIN text |-> trimLine(text[i])], LAMBDA t : t # "")

\* Math.floor(Math.random() * length): one of 0 .. length - 1, and 0 when
\* length is 0.
RandomIndex(length) == IF length = 0 THEN {0} ELSE 0..(length - 1)

TopicsFileInit ==
    /\ GameIdle
    /\ parse = NoOutput
    /\ api = NoApiCall
    /\ store = NoStore
    /\ quiz = NoQuiz
    /\ \E outcome \in {"fetch_error", "http_error", "ok"} :
       \E text \in UNION {FilesOfLength(n) : n \in 0..MaxLines} :
         /\ outcome # "ok" => text = <<>>
         /\ topicsFile = [NoTopicsCall EXCEPT !.pc = "fetch", !.outcome = outcome,
                                              !.text = text, !.arr = defaultTopics]

\* getTopics after fetch settled: a thrown fetch or a status that is not ok
\* goes to the catch with arr still the defaults; otherwise arr is assigned
\* the lines of the file, and only then is their number checked: the throw on
\* fewer than 2 also goes to the catch, which changes nothing.
GT_fetchSettled ==
    /\ topicsFile.pc = "fetch"
    /\ topicsFile' = [topicsFile EXCEPT
                        !.pc = "draw",
                        !.arr = IF topicsFile.outcome = "ok" THEN TopicLines(topicsFile.text)
                                ELSE defaultTopics]
    /\ UNCHANGED <<gameVars, parse, api, store, quiz>>

\* index1 is drawn and index2 set to it.
GT_drawIndex1 ==
    /\ topicsFile.pc = "draw"
    /\ \E i \in RandomIndex(Len(topicsFile.arr)) :
         topicsFile' = [topicsFile EXCEPT !.pc = "loop", !.index1 = i, !.index2 = i]
    /\ UNCHANGED <<gameVars, parse, api, store, quiz>>

\* One pass of `while (index1 === index2)`: index2 is drawn again.
GT_drawIndex2 ==
    /\ topicsFile.pc = "loop"
    /\ topicsFile.index1 = topicsFile.index2
    /\ \E i \in RandomIndex(Len(topicsFile.arr)) :
         topicsFile' = [topicsFile EXCEPT !.index2 = i]
    /\ UNCHANGED <<gameVars, parse, api, store, quiz>>

\* The loop is left: the two topics are stored and TOPICS_READY is emitted.
GT_emitTopics ==
    /\ topicsFile.pc = "loop"
    /\ topicsFile.index1 # topicsFile.index2
    /\ topicsFile' = [topicsFile EXCEPT
                        !.pc = "done",
                        !.topics = <<topicsFile.arr[topicsFile.index1 + 1],
                                     topicsFile.arr[topicsFile.index2 + 1]>>]
    /\ UNCHANGED <<gameVars, parse, api, store, quiz>>

TopicsFileNext ==
    \/ GT_fetchSettled
    \/ GT_drawIndex1
    \/ GT_drawIndex2
    \/ GT_emitTopics

TopicsFileSpec == TopicsFileInit /\ [][TopicsFileNext]_vars

(* ================= callGeminiAPI of src/app.jsx ======================= *)

\* What one attempt can meet: fetch throws; the response is not ok; the
\* response is ok and response.json() resolves; the response is ok and
\* response.json() rejects (the body is not JSON).
AttemptOutcomes == {"fetch_threw", "not_ok", "ok_json", "ok_bad_body"}

\* The first delay, in ms.
InitialDelay == 1000

ApiInit ==
    /\ GameIdle
    /\ parse = NoOutput
    /\ topicsFile = NoTopicsCall
    /\ store = NoStore
    /\ quiz = NoQuiz
    /\ api = [NoApiCall EXCEPT !.pc = "fetch", !.delay = InitialDelay]

\* One pass of the try block: fetch, then return await response.json() when
\* the response is ok.  A rejection of fetch or of response.json() is caught
\* by the catch of the same pass.
API_attempt ==
    /\ api.pc = "fetch"
    /\ api.i < MAX_RETRIES
    /\ \E outcome \in AttemptOutcomes :
         api' = [api EXCEPT !.log = Append(@, outcome),
                            !.pc = IF outcome = "ok_json" THEN "returned" ELSE "failed"]
    /\ UNCHANGED <<gameVars, parse, topicsFile, store, quiz>>

\* The backoff with a delay that stays as it is.
API_backoff_sameDelay ==
    /\ api.pc = "failed"
    /\ api.i < MAX_RETRIES - 1
    /\ api' = [api EXCEPT !.waits = Append(@, api.delay), !.i = @ + 1, !.pc = "fetch"]
    /\ UNCHANGED <<gameVars, parse, topicsFile, store, quiz>>

\* After a failed attempt that is not the last: the wait of `delay` ms, the
\* doubling, and the increment of the loop.
API_backoff ==
    /\ api.pc = "failed"
    /\ api.i < MAX_RETRIES - 1
    /\ api' = [api EXCEPT !.waits = Append(@, api.delay), !.delay = @ * 2,
                          !.i = @ + 1, !.pc = "fetch"]
    /\ UNCHANGED <<gameVars, parse, topicsFile, store, quiz>>

\* After the last failed attempt: no wait, the loop ends and the error is
\* thrown.
API_giveUp ==
    /\ api.pc = "failed"
    /\ api.i = MAX_RETRIES - 1
    /\ api' = [api EXCEPT !.i = @ + 1, !.pc = "thrown"]
    /\ UNCHANGED <<gameVars, parse, topicsFile, store, quiz>>

ApiNext ==
    \/ API_attempt
    \/ API_backoff
    \/ API_giveUp

ApiSpec == ApiInit /\ [][ApiNext]_vars

(* ===== the persisted game state of src/unnamed/part_002 (Firestore) === *)
(* loadOrCreateGameState registers a snapshot listener and returns; the    *)
(* listener is called with the document once it has been read, and again   *)
(* after every change of the document.  A write made while the listener    *)
(* follows the document changes the local view at once and raises a        *)
(* snapshot; every write is then applied to the stored document in order   *)
(* (updateDoc is rejected when the document does not exist).               *)

\* The most guesses processed in one session.
MaxGuesses == 2

\* The scores a document stored by an earlier session has.
StoredScores == {0, 200}

Doc(score) == [exists |-> TRUE, score |-> score]
NoDoc == [exists |-> FALSE, score |-> 0]

StoreInit ==
    /\ GameIdle
    /\ parse = NoOutput
    /\ topicsFile = NoTopicsCall
    /\ api = NoApiCall
    /\ quiz = NoQuiz
    /\ \E d \in {NoDoc} \cup {Doc(sc) : sc \in StoredScores} :
         store = [NoStore EXCEPT !.doc = d, !.loaded = d.score, !.guesses = 0]

\* A local write of the document: the view and the snapshot when the
\* listener follows the document, and the write on its way to the store.
LocalWrite(st, op, score) ==
    IF st.synced
    THEN [st EXCEPT !.view = Doc(score),
                    !.snaps = Append(@, Doc(score)),
                    !.writes = Append(@, [op |-> op, score |-> score, local |-> TRUE])]
    ELSE [st EXCEPT !.writes = Append(@, [op |-> op, score |-> score, local |-> FALSE])]

\* The callback of onSnapshot on a snapshot: an existing document
\* overwrites currentScore with data.score || 0; a missing one is created
\* with setDoc and score 0.
snapshotListener(st, docSnap) ==
    IF docSnap.exists
    THEN [st EXCEPT !.currentScore = docSnap.score]
    ELSE LocalWrite(st, "set", 0)

\* The first snapshot: the document as stored at this moment.
ST_firstSnapshot ==
    /\ store.guesses >= 0
    /\ ~store.synced
    /\ store' = snapshotListener([store EXCEPT !.synced = TRUE, !.view = store.doc],
                                 store.doc)
    /\ UNCHANGED <<gameVars, parse, topicsFile, api, quiz>>

\* A later snapshot is delivered to the listener.
ST_snapshot ==
    /\ store.synced
    /\ store.snaps # <<>>
    /\ store' = snapshotListener([store EXCEPT !.snaps = Tail(@)], Head(store.snaps))
    /\ UNCHANGED <<gameVars, parse, topicsFile, api, quiz>>

\* processPlayerGuess at difficulty Very Easy: the points are added to
\* currentScore and saveGameState writes the new score with updateDoc.
ST_processPlayerGuess ==
    /\ store.guesses >= 0
    /\ store.guesses < MaxGuesses
    /\ \E isCorrect \in BOOLEAN :
         LET points == P2_Points("Very Easy", isCorrect)
             score == store.currentScore + points
         IN  store' = LocalWrite([store EXCEPT !.currentScore = score,
                                               !.deltas = @ + points,
                                               !.guesses = @ + 1],
                                 "update", score)
    /\ UNCHANGED <<gameVars, parse, topicsFile, api, quiz>>

\* The oldest write reaches the store.  updateDoc of a missing document is
\* rejected (saveGameState catches and logs it).  A write made before the
\* listener followed the document raises its snapshot now.
ST_writeApplied ==
    /\ store.writes # <<>>
    /\ LET w == Head(store.writes)
           applied == w.op = "set" \/ store.doc.exists
           st == [store EXCEPT !.writes = Tail(@),
                               !.doc = IF applied THEN Doc(w.score) ELSE @]
       IN  store' = IF applied /\ ~w.local /\ store.synced
                    THEN [st EXCEPT !.view = Doc(w.score), !.snaps = Append(@, Doc(w.score))]
                    ELSE st
    /\ UNCHANGED <<gameVars, parse, topicsFile, api, quiz>>

StoreNext ==
    \/ ST_firstSnapshot
    \/ ST_snapshot
    \/ ST_processPlayerGuess
    \/ ST_writeApplied

StoreSpec == StoreInit /\ [][StoreNext]_vars

(* ================= the quiz of src/music_trivia.jsx =================== *)
(* useTriviaData loads a fixed list of questions one second after the      *)
(* component is mounted; App walks through them.  An effect resets          *)
(* selectedOption and showAnswer whenever the question index or the list    *)
(* changes; it is part of the step that changes them.                       *)

\* The most clicks on a restart button in one session.
MaxRestarts == 2

\* The positions of the four options of a question.
Options == {"a", "b", "c", "d"}

\* The position of the answer of each of the mock questions.
answerOf == <<"c", "c", "c", "b", "c", "b", "c", "c">>

questionsLength == Len(answerOf)

QuizInit ==
    /\ GameIdle
    /\ parse = NoOutput
    /\ topicsFile = NoTopicsCall
    /\ api = NoApiCall
    /\ store = NoStore
    /\ quiz = [NoQuiz EXCEPT !.mounted = TRUE, !.loading = TRUE]

\* What renderGame shows.
QuizView ==
    IF quiz.loading THEN "loading"
    ELSE IF quiz.error # Null THEN "error"
    ELSE IF ~quiz.questions THEN "no_questions"
    ELSE IF quiz.isGameFinished THEN "finished"
    ELSE "question"

\* The effect on [currentQuestionIndex, questions].
resetForNewQuestion(q) ==
    IF q.questions /\ q.currentQuestionIndex < questionsLength
    THEN [q EXCEPT !.selectedOption = Null, !.showAnswer = FALSE]
    ELSE q

\* The timer of mockFetch fires: the questions are set, loading ends.
Q_mockFetchDone ==
    /\ quiz.mounted
    /\ quiz.loading
    /\ quiz' = resetForNewQuestion([quiz EXCEPT !.questions = TRUE, !.loading = FALSE])
    /\ UNCHANGED <<gameVars, parse, topicsFile, api, store>>

\* A click on an option.
Q_handleAnswerSelect ==
    /\ QuizView = "question"
    /\ \E option \in Options :
         quiz' = IF quiz.showAnswer THEN quiz
                 ELSE [quiz EXCEPT
                         !.selectedOption = option,
                         !.showAnswer = TRUE,
                         !.score = IF option = answerOf[quiz.currentQuestionIndex + 1]
                                   THEN @ + 1 ELSE @]
    /\ UNCHANGED <<gameVars, parse, topicsFile, api, store>>

\* A click on Next Question / Finish Quiz.
Q_handleNextQuestion ==
    /\ QuizView = "question"
    /\ quiz.showAnswer
    /\ quiz' = IF quiz.currentQuestionIndex < questionsLength - 1
               THEN resetForNewQuestion([quiz EXCEPT !.currentQuestionIndex = @ + 1])
               ELSE [quiz EXCEPT !.isGameFinished = TRUE]
    /\ UNCHANGED <<gameVars, parse, topicsFile, api, store>>

\* A click on Play Again / Try Again.  refetch is () => mockFetch(), and
\* mockFetch is a constant of the effect callback of useTriviaData, out of
\* scope where refetch is made: the call throws a ReferenceError before any
\* setter of handleRestartGame runs.
Q_handleRestartGame ==
    /\ QuizView \in {"error", "finished"}
    /\ quiz.restarts < MaxRestarts
    /\ quiz' = [quiz EXCEPT !.restarts = @ + 1]
    /\ UNCHANGED <<gameVars, parse, topicsFile, api, store>>

QuizNext ==
    \/ Q_mockFetchDone
    \/ Q_handleAnswerSelect
    \/ Q_handleNextQuestion
    \/ Q_handleRestartGame

QuizSpec == QuizInit /\ [][QuizNext]_vars

(* ============================== claims ================================ *)

\* C1: whenever the UI phase is loading, it eventually becomes topic_select,
\* quiz or quiz_result, or the game reaches the terminal win state (the
\* congratulation after continue at the winning score); a failed
\* initialisation of the local model in create is left aside.
C1_NeverStrandedInLoading ==
    [](ui.phase = "loading" =>
         <>(ui.phase # "loading" \/ ui.message = "congratulations" \/ boot.llm = "failed"))

\* C1, the state the player is stranded in: getTopics of src/app.jsx failed,
\* only the notice was emitted, nothing is outstanding, the phase is loading.
C1_StrandedAfterTopicFailure ==
    /\ variant = "app"
    /\ ui.phase = "loading"
    /\ ui.message = "refresh"
    /\ inflight = EmptyBag

\* C2: every step changes the score by one of a small fixed set of deltas
\* (+100 / -50 of the rule table, +1 / -1 of the other variant, or nothing);
\* the score_adjustment of an LLM reply is never added as is.
C2_ScoreDeltasFixed ==
    [][scene'.score - scene.score \in {0, CorrectPoints, 0 - IncorrectPoints, 1, -1}]_vars

\* C2, the state after the status reply with score_adjustment 7 was applied.
C2_ArbitraryAdjustmentApplied ==
    /\ variant = "main"
    /\ settled.kind = "status" /\ settled.ok
    /\ scene.score = 7

\* C3: every question that becomes the current question, and every question
\* announced with QUESTION_READY (the error path's included), has exactly four
\* options and a correct answer equal to one of them.
C3_QuestionsWellFormed ==
    /\ scene.currentQuestionData.set =>
         /\ Len(scene.currentQuestionData.options) = RequiredOptions
         /\ scene.currentQuestionData.answer \in Range(scene.currentQuestionData.options)
    /\ \A i \in DOMAIN lastEmit :
         lastEmit[i].type = "QUESTION_READY" =>
           /\ Len(lastEmit[i].options) = RequiredOptions
           /\ lastEmit[i].answer \in Range(lastEmit[i].options)

\* C3, the error path of handleTopicSelection: a question with the single
\* option "Restart" is shown.
C3_RestartQuestionShown ==
    /\ variant = "main"
    /\ settled.kind = "question" /\ ~settled.ok
    /\ ui.phase = "quiz"
    /\ ui.options = <<"Restart">>

\* C4: if the UI phase is quiz the scene has a current question, and if the
\* phase is not quiz no unanswered question is pending.
C4_PhaseMatchesQuestion ==
    /\ ui.phase = "quiz" => scene.currentQuestionData.set
    /\ ui.phase # "quiz" => ~(scene.currentQuestionData.set /\ ~scene.answered)

\* C4, the phase is quiz and the scene has no current question.
C4_QuizWithoutQuestion ==
    /\ ui.phase = "quiz"
    /\ ~scene.currentQuestionData.set

\* C5: at most one LLM request is outstanding at any moment.
C5_AtMostOneRequest == Outstanding <= 1

\* C5, two requests for topics are outstanding at once.
C5_TwoTopicRequests ==
    \E r \in BagToSet(inflight) : r.kind = "topics" /\ CopiesIn(r, inflight) >= 2

\* C6: the reply to a request issued before the latest showTopicSelection is
\* discarded: no step sets currentQuestionData from it or emits QUESTION_READY
\* or TOPICS_READY for it.
C6_StaleResponsesDiscarded ==
    \A i \in DOMAIN lastEmit :
        lastEmit[i].type \in {"QUESTION_READY", "TOPICS_READY"} => ~lastEmit[i].stale

\* C6, the topics of a stale reply are what the UI shows.
C6_StaleTopicsApplied ==
    /\ settled.kind = "topics"
    /\ lastEmit # <<>>
    /\ lastEmit[1].type = "TOPICS_READY" /\ lastEmit[1].stale
    /\ ui.topics = lastEmit[1].topics

\* C7: a logical LLM request makes at most two attempts, and when it has
\* finally failed a user-visible notice is emitted together with a fallback
\* payload (topics, a question or a state update).
C7_RetryOnceThenFallback ==
    /\ \A r \in BagToSet(inflight) : r.attempt <= 2
    /\ (settled.kind # "none" /\ ~settled.ok) =>
         /\ \E i \in DOMAIN lastEmit : lastEmit[i].type = "CONVERSATION_UPDATE"
         /\ \E i \in DOMAIN lastEmit :
              lastEmit[i].type \in {"TOPICS_READY", "QUESTION_READY", "GAME_STATE_UPDATE"}

\* C7, a request of callGeminiAPI is on its last attempt.
C7_FifthAttempt ==
    \E r \in BagToSet(inflight) : r.attempt = MAX_RETRIES

\* C8: when the topic request fails, TOPICS_READY is emitted with a non-empty
\* built-in topic list and the UI enters topic_select.
C8_TopicFailureFallsBack ==
    (settled.kind = "topics" /\ ~settled.ok) =>
        /\ ui.phase = "topic_select"
        /\ ui.topics # <<>>
        /\ \E i \in DOMAIN lastEmit :
             lastEmit[i].type = "TOPICS_READY" /\ lastEmit[i].topics = ui.topics

\* C8, getTopics of src/app.jsx failed and emitted the notice alone.
C8_NoticeWithoutTopics ==
    /\ settled = [kind |-> "topics", origin |-> "getTopics", ok |-> FALSE]
    /\ lastEmit = <<CONVERSATION_UPDATE("refresh")>>
    /\ ui.topics = <<>>

\* C9: when the question request issued by the choice of a topic fails, the UI
\* returns to topic_select with a non-empty list of topics and an apology is
\* emitted; the phase does not become quiz.
C9_QuestionFailureReturnsToTopics ==
    (/\ settled.kind = "question"
     /\ settled.origin \in {"getNewQuestion", "handleTopicSelection"}
     /\ ~settled.ok) =>
        /\ ui.phase = "topic_select"
        /\ ui.topics # <<>>
        /\ \E i \in DOMAIN lastEmit :
             lastEmit[i].type = "CONVERSATION_UPDATE" /\ lastEmit[i].message = "apology"

\* C9, getNewQuestion of src/app.jsx failed: topic_select with no topic to choose.
C9_TopicSelectWithoutTopics ==
    /\ settled = [kind |-> "question", origin |-> "getNewQuestion", ok |-> FALSE]
    /\ ui.phase = "topic_select"
    /\ ui.topics = <<>>

\* C10: when the status-update or commentary call that follows an accepted
\* guess has settled, with success or with failure, the phase is quiz_result.
C10_SettledAnswerShowsResult ==
    settled.kind \in {"status", "commentary"} => ui.phase = "quiz_result"

\* C10, updateStatus failed in processPlayerGuess of src/main.js: the phase is
\* still quiz.
C10_StatusFailedStillQuiz ==
    /\ variant = "main"
    /\ settled.kind = "status" /\ ~settled.ok
    /\ ui.phase = "quiz"

\* C11: from the step in which continue is requested at a score of at least
\* the win threshold, the session is in a terminal win state: neither that step
\* nor any later one issues a topic or question request, and no later step
\* changes the score.
C11_WinIsTerminal ==
    [][/\ (won \/ won') =>
            ~\E r \in BagToSet(inflight') :
                /\ r.kind \in {"topics", "question"}
                /\ r.attempt = 1
                /\ CopiesIn(r, inflight') > CopiesIn(r, inflight)
       /\ won => scene'.score = scene.score]_vars

\* C11, the won session is back in topic selection with topics to choose from.
C11_TopicsOfferedAfterWin ==
    /\ won
    /\ scene.score >= WinScore
    /\ ui.phase = "topic_select"
    /\ ui.topics # <<>>

\* C12: a continue requested in quiz_result with a score below the win
\* threshold requests a new question (on the topic of the last choice) and no
\* new topics: the session goes to loading and on to quiz without another
\* topic selection.
C12_ContinueAsksQuestionOnLastTopic ==
    [][(ui.phase = "quiz_result" /\ clicks' = clicks + 1 /\ scene.score < WinScore) =>
          /\ ui'.phase = "loading"
          /\ scene'.topic = scene.topic
          /\ \E r \in BagToSet(inflight') :
                r.kind = "question" /\ CopiesIn(r, inflight') > CopiesIn(r, inflight)
          /\ \A r \in BagToSet(inflight') :
                r.kind = "topics" => CopiesIn(r, inflight') = CopiesIn(r, inflight)]_vars

\* C12, continue was clicked below the threshold and topics are being requested.
C12_ContinueAsksTopics ==
    /\ variant = "app"
    /\ clicks > 0
    /\ ~won
    /\ ui.phase = "loading" /\ ui.message = "preparing"
    /\ \E r \in BagToSet(inflight) : r.kind = "topics" /\ r.origin = "getTopics"

\* C13: the verdict of processPlayerGuess is exactly (guess = correct answer
\* of the current question).  The step of the click computes it so (and in
\* src/main.js announces it so in GUESS_PROCESSED); the call awaited afterwards
\* carries it unchanged through the save and every retry; and the
\* GAME_STATE_UPDATE emitted when that call settles announces the same verdict,
\* whatever reply the LLM gave and whether the call succeeded or failed.
\* (The UI of src/unnamed/part_002 keeps no record of the guess, so there the
\* first conjunct has nothing to compare the verdict with.)
C13_VerdictIsPure ==
    [][LET verdict == ui'.lastGuess = scene.currentQuestionData.answer
           Awaited(r) == r.kind \in {"status", "save", "commentary"}
           New(r) == CopiesIn(r, inflight') > CopiesIn(r, inflight)
       IN  /\ \A r \in BagToSet(inflight') :
                (Awaited(r) /\ New(r)) =>
                    IF clicks' = clicks + 1
                    THEN variant # "part_002" => r.isCorrect = verdict
                    ELSE \E q \in BagToSet(inflight) :
                            Awaited(q) /\ q.isCorrect = r.isCorrect
           /\ \A i \in DOMAIN lastEmit' :
                (lastEmit'[i].type = "GUESS_PROCESSED" /\ variant = "main") =>
                    lastEmit'[i].isCorrect = (IF verdict THEN "true" ELSE "false")
           /\ \A i \in DOMAIN lastEmit' :
                (lastEmit'[i].type = "GAME_STATE_UPDATE" /\ lastEmit'[i].phase = "quiz_result") =>
                    \E r \in BagToSet(inflight) :
                        /\ inflight' = Del(inflight, r)
                        /\ r.kind \in {"status", "commentary"}
                        /\ lastEmit'[i].isCorrect = (IF r.isCorrect THEN "true" ELSE "false")]_vars

\* C13, a wrong guess was judged wrong although the awaited call succeeded.
C13_WrongGuessJudgedWrong ==
    /\ settled.kind \in {"status", "commentary"} /\ settled.ok
    /\ ui.phase = "quiz_result"
    /\ ui.isCorrect = "false"
    /\ \E i \in DOMAIN lastEmit :
         lastEmit[i].type = "GAME_STATE_UPDATE" /\ lastEmit[i].isCorrect = "false"

\* C14: the scene receives a UI command only in that command's phase.  A
\* click that reaches handleTopicSelection (a question request is issued) is
\* made in phase topic_select; a click that reaches processPlayerGuess (the
\* guess is judged and its save, status or commentary call is issued) is made
\* in phase quiz and before any guess was processed for the shown question; a
\* click that reaches startNextRound is made in phase quiz_result; and no
\* click reaches the scene while the phase is loading.
C14_CommandsOnlyInTheirPhase ==
    [][clicks' = clicks + 1 =>
         LET Issued(kinds) == \E r \in BagToSet(inflight') :
                                 r.kind \in kinds /\ CopiesIn(r, inflight') > CopiesIn(r, inflight)
         IN  /\ ui.phase # "loading"
             /\ Issued({"question"}) => ui.phase = "topic_select"
             /\ Issued({"status", "save", "commentary"}) =>
                    ui.phase = "quiz" /\ ~scene.answered
             /\ (won' # won \/ \E r \in BagToSet(inflight') :
                                  /\ r.kind = "topics" /\ r.origin = "getTopics"
                                  /\ CopiesIn(r, inflight') > CopiesIn(r, inflight)) =>
                    ui.phase = "quiz_result"]_vars

\* C14, in src/unnamed/part_002 two guesses were processed for one question:
\* both calls are outstanding and the score moved twice.
C14_TwoGuessesForOneQuestion ==
    /\ variant = "part_002"
    /\ ui.phase = "quiz"
    /\ scene.answered
    /\ \E r \in BagToSet(inflight) :
         r.kind \in {"save", "commentary"} /\ CopiesIn(r, inflight) >= 2

\* C15: for every output text that contains no "{", every parser fails with
\* the explicit error that the start bracket is missing and returns no value,
\* whatever schema name it was called with.
C15_NoBracketFails ==
    (parse.done /\ "{" \notin Range(fullResponseText)) => parse.out.k = "no_start_bracket"

\* C15, runLLM_API_Call was given a text of prose without "{" and the empty
\* schema name, and returned the text.
C15_RawTextReturned ==
    /\ parse.done
    /\ parse.parser = "runLLM_API_Call" /\ parse.schemaName = ""
    /\ "{" \notin Range(fullResponseText)
    /\ "w" \in Range(fullResponseText)
    /\ parse.out = ReturnedText(fullResponseText)

\* C16: round trip.  For every JSON object that has the members its schema
\* requires, and every prefix and suffix of prose and markdown fences around
\* it, the parser returns exactly that object: parse(wrap(obj)) = obj.
C16_RoundTrip ==
    (/\ parse.done
     /\ parse.obj # <<>>
     /\ RequiredFields(parse.parser, parse.schemaName) \subseteq JSONparse(parse.obj))
        => parse.out = Returned(JSONparse(parse.obj))

\* C16, runLLM_Question_Command of src/llm_service.js was given a complete
\* question object followed by a word of prose, without any brace in the
\* wrapping, and failed to parse it.
C16_ProseAfterObjectRejected ==
    /\ parse.done
    /\ parse.parser = "runLLM_Question_Command" /\ parse.file = "llm_service.js"
    /\ parse.obj = ObjectText(QUESTION_FIELDS)
    /\ parse.prefix = <<>> /\ parse.suffix = <<"w">>
    /\ parse.out = Thrown("failed_to_parse")

\* C17: a parser returns a record only when every member its schema requires
\* is present; for the status update these are challenge_difficulty,
\* score_adjustment, context_summary, conversation_tone and conductor_comment.
C17_ReturnsOnlyCompleteRecords ==
    (parse.done /\ parse.out.k = "object")
        => RequiredFields(parse.parser, parse.schemaName) \subseteq parse.out.fields

\* C17, runLLM_Command returned a status update without conversation_tone.
C17_StatusWithoutToneReturned ==
    /\ parse.done
    /\ parse.parser = "runLLM_Command"
    /\ parse.obj = ObjectText(Without(GAME_STATE_FIELDS, 4))
    /\ parse.out.k = "object"
    /\ "conversation_tone" \notin parse.out.fields

\* C18: every failure of an LLM call or of the LLM's initialization is caught
\* inside the scene: no entry point of the scene ends with an error that
\* nothing caught.
C18_FailuresCaughtInScene ==
    ~boot.uncaught

\* C18, the initialization of the LLM failed in src/main.js: create rejected
\* at its await, nothing was emitted and the UI still shows its first
\* loading screen.
C18_CreateRejected ==
    /\ variant = "main"
    /\ boot.llm = "failed" /\ boot.uncaught /\ ~boot.created
    /\ ui = initialUIState
    /\ inflight = EmptyBag

\* C19: the difficulty changes only in response to an answer, and then by at
\* most one step of its ladder: Very Easy, Easy, Medium, Difficult in
\* src/app.jsx; Easy, Medium, Hard in src/main.js.
C19_DifficultyOneStepPerAnswer ==
    [][scene'.difficulty # scene.difficulty =>
         LET ladder == IF variant = "main" THEN <<"Easy", "Medium", "Hard">>
                       ELSE <<"Very Easy", "Easy", "Medium", "Difficult">>
             AnswerStep == \/ clicks' = clicks + 1 /\ ui.phase = "quiz"
                           \/ settled'.kind = "status"
         IN  /\ AnswerStep
             /\ \E i, j \in DOMAIN ladder :
                  /\ ladder[i] = scene.difficulty
                  /\ ladder[j] = scene'.difficulty
                  /\ i - j \in {-1, 1}]_vars

\* C19, in src/main.js the first answer was given, the status update arrived
\* and the difficulty, Easy until then, is Hard.
C19_EasyToHardInOneAnswer ==
    /\ variant = "main"
    /\ clicks = 2
    /\ settled.kind = "status" /\ settled.ok
    /\ scene.difficulty = "Hard"
    /\ ui.phase = "quiz_result" /\ ui.difficulty = "Hard"

\* C20: after an incorrect answer processPlayerGuess of src/app.jsx has
\* decreased the score by 50, left the difficulty as it was or moved it back
\* one level, and reset the tone to Normal, whatever the score was.
C20_IncorrectAnswerEffects ==
    [][(/\ variant = "app"
        /\ clicks' = clicks + 1
        /\ ui.phase = "quiz"
        /\ scene.currentQuestionData.set
        /\ ui'.lastGuess # scene.currentQuestionData.answer) =>
         LET ladder == <<"Very Easy", "Easy", "Medium", "Difficult">>
         IN  /\ scene'.score = scene.score - IncorrectPoints
             /\ \E i, j \in DOMAIN ladder :
                  /\ ladder[i] = scene.difficulty
                  /\ ladder[j] = scene'.difficulty
                  /\ j \in {i, i - 1}
             /\ scene'.tone = "Normal"]_vars

\* C20, the first question of a session of src/app.jsx was answered wrongly:
\* the score is -50 and the tone is Sassy.
C20_SassyAfterWrongAnswer ==
    /\ variant = "app"
    /\ scene.answered
    /\ ui.lastGuess # Null /\ ui.lastGuess # scene.currentQuestionData.answer
    /\ scene.score = 0 - IncorrectPoints
    /\ scene.difficulty = "Very Easy"
    /\ scene.tone = "Sassy"

\* C21: starting from a new session, after N consecutive correct answers,
\* each of them settled, the score is N * CorrectPoints, whatever score the
\* LLM suggested and whatever was persisted (src/app.jsx and src/main.js).
C21_ScoreIsStreakTimesDelta ==
    (/\ variant \in {"app", "main"}
     /\ scene.streak >= 0
     /\ \A r \in BagToSet(inflight) : r.kind # "status")
        => scene.score = scene.streak * CorrectPoints

\* C21, in src/main.js two questions were answered correctly and both status
\* updates arrived, and the score is not 2 * CorrectPoints.
C21_TwoCorrectOtherScore ==
    /\ variant = "main"
    /\ scene.streak = 2
    /\ settled.kind = "status" /\ settled.ok
    /\ \A r \in BagToSet(inflight) : r.kind # "status"
    /\ scene.score # 2 * CorrectPoints

\* C22: whenever the phase is topic_select the list offered to the player has
\* exactly N topics: 2 in src/app.jsx (and src/unnamed/part_002), 3 with the
\* service and src/main.js.
C22_ExactlyNTopicsOffered ==
    ui.phase = "topic_select" => Len(ui.topics) = (IF variant = "main" THEN 3 ELSE 2)

\* C22, getTopics of src/app.jsx accepted a reply with one topic as a success
\* and the player is offered that one topic.
C22_OneTopicOffered ==
    /\ variant = "app"
    /\ settled.kind = "topics" /\ settled.ok
    /\ ui.phase = "topic_select"
    /\ Len(ui.topics) = 1

\* C23: the guess is judged against the question the player is shown: when
\* QUESTION_READY has been emitted, the scene's currentQuestionData has the
\* options and the correct answer of the emitted payload, on the success path
\* and on the error path.
C23_ShownQuestionIsCurrent ==
    \A i \in DOMAIN lastEmit :
        lastEmit[i].type = "QUESTION_READY" =>
            /\ scene.currentQuestionData.set
            /\ scene.currentQuestionData.options = lastEmit[i].options
            /\ scene.currentQuestionData.answer = lastEmit[i].answer

\* C23, handleTopicSelection of src/main.js failed on a later topic: the UI
\* shows the fallback question with the single option Restart while the
\* scene still holds the question of the round before.
C23_RestartShownOldQuestionHeld ==
    /\ variant = "main"
    /\ settled.kind = "question" /\ ~settled.ok
    /\ ui.phase = "quiz" /\ ui.options = <<"Restart">>
    /\ scene.currentQuestionData.set
    /\ scene.currentQuestionData.options # ui.options

\* C24: each question is scored at most once.  An answer click after which
\* processPlayerGuess changes the score, or issues the status call that will
\* change it, is the first one judged since the question was installed.
C24_QuestionScoredOnce ==
    [][(/\ clicks' = clicks + 1
        /\ ui.phase = "quiz"
        /\ \/ scene'.score # scene.score
           \/ \E r \in BagToSet(inflight') :
                r.kind = "status" /\ CopiesIn(r, inflight') > CopiesIn(r, inflight))
         => ~scene.answered]_vars

\* C24, in src/unnamed/part_002 the one question of the session was answered
\* correctly twice by two clicks and the score is twice the points.
C24_SameQuestionScoredTwice ==
    /\ variant = "part_002"
    /\ clicks = 3
    /\ scene.streak = 2
    /\ scene.score = 2 * P2_Points("Very Easy", TRUE)

\* C25: getTopics of src/unnamed/part_000 always terminates and emits
\* TOPICS_READY with two different topics, for every outcome of loading
\* topics.txt.  When the load failed or the file has fewer than 2 non-empty
\* lines, the list drawn from is the default list; the loop that draws the
\* second index is entered only with a list from which a different index can
\* be drawn; and the two topics emitted differ.
C25_GetTopicsEmitsTwoTopics ==
    /\ (/\ topicsFile.pc \in {"draw", "loop", "done"}
        /\ topicsFile.outcome # "ok" \/ Len(TopicLines(topicsFile.text)) < 2)
           => topicsFile.arr = defaultTopics
    /\ topicsFile.pc = "loop" => Len(topicsFile.arr) >= 2
    /\ topicsFile.pc = "done" => topicsFile.topics[1] # topicsFile.topics[2]

\* C25, topics.txt has one non-empty line: the list drawn from is that one
\* line and the loop draws index 0 again and again.
C25_LoopOnOneTopic ==
    /\ topicsFile.pc = "loop"
    /\ topicsFile.outcome = "ok"
    /\ Len(topicsFile.arr) = 1 /\ topicsFile.arr # defaultTopics
    /\ topicsFile.index1 = 0 /\ topicsFile.index2 = 0

\* C26 as stated: one call of callGeminiAPI makes at most MAX_RETRIES fetch
\* attempts, waits 1000, 2000, 4000, 8000 ms between consecutive attempts and
\* not after the fifth, throws after the fifth failed attempt, and returns at
\* the first attempt whose response is ok.
C26_ReturnsAtFirstOkResponse ==
    /\ Len(api.log) <= MAX_RETRIES
    /\ api.waits = SubSeq(<<1000, 2000, 4000, 8000>>, 1, Len(api.waits))
    /\ api.pc = "fetch" => Len(api.waits) = Len(api.log)
    /\ api.pc = "thrown" => Len(api.log) = MAX_RETRIES /\ Len(api.waits) = MAX_RETRIES - 1
    /\ \A j \in DOMAIN api.log :
         api.log[j] \in {"ok_json", "ok_bad_body"} => (j = Len(api.log) /\ api.pc = "returned")

\* C26, amended: as above, but the call returns at the first attempt whose
\* response is ok and whose body response.json() can parse; an ok response
\* with a body that does not parse is a failed attempt like a thrown fetch
\* and a non-ok response.
C26_ReturnsAtFirstParsedOkResponse ==
    /\ Len(api.log) <= MAX_RETRIES
    /\ api.waits = SubSeq(<<1000, 2000, 4000, 8000>>, 1, Len(api.waits))
    /\ api.pc = "fetch" => Len(api.waits) = Len(api.log)
    /\ api.pc \in {"failed", "returned"} => Len(api.waits) = Len(api.log) - 1
    /\ api.pc = "thrown" => /\ Len(api.log) = MAX_RETRIES
                            /\ Len(api.waits) = MAX_RETRIES - 1
                            /\ \A j \in DOMAIN api.log : api.log[j] # "ok_json"
    /\ api.pc = "returned" <=> (\E j \in DOMAIN api.log : api.log[j] = "ok_json")
    /\ \A j \in DOMAIN api.log : api.log[j] = "ok_json" => j = Len(api.log)

\* C26, the call returned at its fifth attempt after four failed attempts of
\* which one had an ok response with an unparsable body, having waited 1000,
\* 2000, 4000 and 8000 ms.
C26_ReturnedAtFifthAttempt ==
    /\ api.pc = "returned"
    /\ Len(api.log) = MAX_RETRIES
    /\ \E j \in 1..(MAX_RETRIES - 1) : api.log[j] = "ok_bad_body"
    /\ api.waits = <<1000, 2000, 4000, 8000>>

\* C27: after a GAME_STATE_UPDATE event has been handled, the tone, the
\* difficulty and the score of the UI state are those the scene had when it
\* emitted the event, at every emit site.
C27_UIMirrorsSceneAfterUpdate ==
    (\E i \in DOMAIN lastEmit : lastEmit[i].type = "GAME_STATE_UPDATE") =>
        /\ ui.tone = scene.tone
        /\ ui.difficulty = scene.difficulty
        /\ ui.score = scene.score

\* C27, in src/unnamed/part_002 the commentary arrived and its update was
\* handled: the UI has the scene's score and difficulty but no tone.
C27_ToneLostInUpdate ==
    /\ variant = "part_002"
    /\ settled.kind = "commentary" /\ settled.ok
    /\ \E i \in DOMAIN lastEmit :
         lastEmit[i].type = "GAME_STATE_UPDATE" /\ lastEmit[i].tone = scene.tone
    /\ ui.phase = "quiz_result"
    /\ ui.tone = Undefined
    /\ ui.difficulty = scene.difficulty

\* C28: when updateStatus fails inside processPlayerGuess of src/main.js,
\* gameState is left as it was before the guess: neither the click nor the
\* failed call changes score, difficulty, conversation_tone or game_history,
\* and the failure is announced through CONVERSATION_UPDATE, with no
\* GAME_STATE_UPDATE.
C28_FailedStatusLeavesGameState ==
    [][LET Same == /\ scene'.score = scene.score
                   /\ scene'.difficulty = scene.difficulty
                   /\ scene'.tone = scene.tone
                   /\ scene'.history = scene.history
       IN  /\ (variant = "main" /\ clicks' = clicks + 1 /\ ui.phase = "quiz") => Same
           /\ (variant = "main" /\ settled'.kind = "status" /\ ~settled'.ok) =>
                 /\ Same
                 /\ \E i \in DOMAIN lastEmit' :
                      /\ lastEmit'[i].type = "CONVERSATION_UPDATE"
                      /\ lastEmit'[i].message = "score_update_failed"
                 /\ \A i \in DOMAIN lastEmit' : lastEmit'[i].type # "GAME_STATE_UPDATE"]_vars

\* C28, updateStatus failed after the first guess of a session of src/main.js:
\* the notice is shown, gameState is as it was at the start and the next
\* challenge is scheduled.
C28_StatusFailedNoticeShown ==
    /\ variant = "main"
    /\ settled.kind = "status" /\ ~settled.ok
    /\ scene.answered
    /\ ui.message = "score_update_failed"
    /\ scene.score = 0 /\ scene.difficulty = "Easy" /\ scene.tone = "Normal"
    /\ scene.history = "start"
    /\ "startChallenge" \in BagToSet(timers)

\* C29: the in-memory score is never overwritten by an older persisted
\* value: once the listener follows the document and every write and every
\* snapshot has been delivered, currentScore is the loaded score plus the sum
\* of the points processPlayerGuess added.
C29_ScoreSurvivesPersistence ==
    (/\ store.guesses >= 0
     /\ store.synced /\ store.writes = <<>> /\ store.snaps = <<>>)
        => store.currentScore = store.loaded + store.deltas

\* C29, a new player (no document) answered once before the first snapshot
\* arrived: updateDoc was rejected, the listener created the document with
\* score 0, and after all deliveries currentScore is 0 although points were
\* added.
C29_PointsLostToInitialDocument ==
    /\ store.guesses = 1
    /\ store.loaded = 0 /\ store.deltas = P2_Points("Very Easy", TRUE)
    /\ store.synced /\ store.writes = <<>> /\ store.snaps = <<>>
    /\ store.doc = Doc(0)
    /\ store.currentScore = 0

\* C30: handleRestartGame returns the quiz to its initial state from any
\* state, the finished one included: after it currentQuestionIndex is 0,
\* score is 0, showAnswer is false, selectedOption is null, isGameFinished is
\* false, and the questions are being reloaded.
C30_RestartResetsQuiz ==
    [][quiz'.restarts # quiz.restarts =>
          /\ quiz'.currentQuestionIndex = 0
          /\ quiz'.score = 0
          /\ quiz'.showAnswer = FALSE
          /\ quiz'.selectedOption = Null
          /\ quiz'.isGameFinished = FALSE
          /\ quiz'.loading]_vars

\* C30, Play Again was clicked on the finished quiz and the quiz is still
\* finished, on the last question, with its score.
C30_StillFinishedAfterRestart ==
    /\ quiz.restarts > 0
    /\ quiz.isGameFinished
    /\ quiz.currentQuestionIndex = questionsLength - 1
    /\ quiz.score > 0
    /\ ~quiz.loading

====
